---- MODULE Spec2Model ----
(***************************************************************************)
(* A model of the AT&T-syntax X86 instruction printer                       *)
(* (llvm/lib/Target/X86/InstPrinter/X86ATTInstPrinter.cpp).                *)
(*                                                                         *)
(* The printer object holds the optional comment sink (CommentStream), the *)
(* immediate-format mode (PrintImmHex) and the flag HasCustomInstComment.  *)
(* Every entry point is one action.  What a call does is kept in out, the  *)
(* sequence of its effects in program order: the tokens written to the     *)
(* output stream, the comments written to the comment sink, and the        *)
(* formatter calls made.  OS, CS and calls are the three projections.      *)
(*                                                                         *)
(* 64-bit values (int64_t) are kept as four 16-bit limbs, least            *)
(* significant first, so that the casts to int16_t / int32_t / uint8_t and *)
(* the signed comparisons of the code are modelled bit for bit.            *)
(* Operand indices are those of the code (0-based).                        *)
(* Markup (the optional <reg: ...> wrappers) is off and not modelled.      *)
(***************************************************************************)
EXTENDS Integers, Sequences, FiniteSets, TLC

VARIABLES CommentStream, PrintImmHex, HasCustomInstComment, call, out, ret

vars == <<CommentStream, PrintImmHex, HasCustomInstComment, call, out, ret>>

\* Register ids used by the operand inputs are 1..NumRegs; 0 is "no register".
NumRegs == 2

\* ------------------------------------------------------------------------
\* 64-bit two's complement values as limbs <<bits 0-15, 16-31, 32-47, 48-63>>
\* ------------------------------------------------------------------------
LimbBase == 2^16
LimbMax == 2^16 - 1
SignBit == 2^15

\* The int64_t holding the (32-bit) integer n.
I64(n) ==
    LET ext == IF n < 0 THEN LimbMax ELSE 0
    IN  << n % LimbBase, (n \div LimbBase) % LimbBase, ext, ext >>

IsNeg(x) == x[4] >= SignBit

\* Unsigned and signed "less than" on int64_t.
ULT(a, b) ==
    \E i \in 1..4 : a[i] < b[i] /\ \A j \in (i+1)..4 : a[j] = b[j]

SLT(a, b) == IF IsNeg(a) # IsNeg(b) THEN IsNeg(a) ELSE ULT(a, b)

SGT(a, b) == SLT(b, a)

SGE(a, b) == ~SLT(a, b)

SLE(a, b) == ~SLT(b, a)

\* (int64_t)(int16_t)x and (int64_t)(int32_t)x: keep the low bits, sign-extend.
CastInt16(x) ==
    LET ext == IF x[1] >= SignBit THEN LimbMax ELSE 0
    IN  << x[1], ext, ext, ext >>

CastInt32(x) ==
    LET ext == IF x[2] >= SignBit THEN LimbMax ELSE 0
    IN  << x[1], x[2], ext, ext >>

\* (uint16_t)x, (uint32_t)x, (uint64_t)x: the low limbs.
CastUInt16(x) == << x[1] >>

CastUInt32(x) == << x[1], x[2] >>

CastUInt64(x) == x

\* x & 0xff
AndFF(x) == << x[1] % 256, 0, 0, 0 >>

\* format("%X", v): the hexadecimal digits of an unsigned value given as limbs,
\* most significant first, without leading zeros ("0" for zero).
\* The 4 * Len(limbs) hexadecimal digits of the limbs, most significant first.
AllDigits(limbs) ==
    [ i \in 1..(4 * Len(limbs)) |->
        LET l == limbs[Len(limbs) - ((i - 1) \div 4)]
            sh == 3 - ((i - 1) % 4)
        IN  (l \div (16 ^ sh)) % 16 ]

\* ds without its leading zeros; the last digit always stays.
StripZeros(ds) ==
    LET first == CHOOSE i \in 1..Len(ds) :
                    /\ (ds[i] # 0 \/ i = Len(ds))
                    /\ \A j \in 1..(i - 1) : ds[j] = 0
    IN  SubSeq(ds, first, Len(ds))

FormatHexX(limbs) == StripZeros(AllDigits(limbs))

\* ------------------------------------------------------------------------
\* Instructions and operands (MCInst, MCOperand)
\* ------------------------------------------------------------------------
\* An operand is a register (val = <<RegNo>>), an immediate (val = the four
\* limbs) or an expression (val = <<id>>).
Reg(r)  == [kind |-> "reg",  val |-> << r >>]
Imm(x)  == [kind |-> "imm",  val |-> x]
Expr(e) == [kind |-> "expr", val |-> << e >>]

isReg(Op)  == Op.kind = "reg"
isImm(Op)  == Op.kind = "imm"
isExpr(Op) == Op.kind = "expr"
getReg(Op) == Op.val[1]
getImm(Op) == Op.val

getNumOperands(MI) == Len(MI.Operands)
getOperand(MI, OpNo) == MI.Operands[OpNo + 1]

\* Offsets of the parts of a memory operand group (X86::AddrBaseReg, ...).
AddrBaseReg == 0
AddrScaleAmt == 1
AddrIndexReg == 2
AddrDisp == 3
AddrSegmentReg == 4

\* ------------------------------------------------------------------------
\* Output: effects [s |-> stream, k |-> kind, v |-> payload] in program order
\* ------------------------------------------------------------------------
\* T is the printer object (this):
\*   [CommentStream, PrintImmHex, HasCustomInstComment].
\* Every formatter yields the sequence of effects it has, in order.
Put(k, v) == << [s |-> "OS", k |-> k, v |-> v] >>
Lit(k) == Put(k, <<>>)
PutComment(k, v) == << [s |-> "CS", k |-> k, v |-> v] >>
Enter(fn, op) == << [s |-> "call", k |-> fn, v |-> << op >>] >>

\* MCInstPrinter::formatImm: hexadecimal when PrintImmHex is set, else decimal.
formatImm(T, Value) == IF T.PrintImmHex THEN Put("hex", Value) ELSE Put("dec", Value)

\* OS << '%' << getRegisterName(RegNo)
printRegName(RegNo) == Put("reg", << RegNo >>)

\* HexComment with the width test dropped: always the 64-bit rendering.
HexCommentAlways64(ImmV) == PutComment("imm = 0x", FormatHexX(CastUInt64(ImmV)))

\* The hex-value comment of printOperand, lines 248-254.
HexComment(ImmV) ==
    IF ImmV = CastInt16(ImmV)
    THEN PutComment("imm = 0x", FormatHexX(CastUInt16(ImmV)))
    ELSE IF ImmV = CastInt32(ImmV)
    THEN PutComment("imm = 0x", FormatHexX(CastUInt32(ImmV)))
    ELSE PutComment("imm = 0x", FormatHexX(CastUInt64(ImmV)))

\* WantsHexComment with both bounds of the range off by one.
WantsHexCommentOffByOne(T, ImmV) ==
    /\ T.CommentStream
    /\ ~T.HasCustomInstComment
    /\ (SGE(ImmV, I64(255)) \/ SLE(ImmV, I64(-256)))

\* The condition under which printOperand adds the hex-value comment, line 247.
WantsHexComment(T, ImmV) ==
    /\ T.CommentStream
    /\ ~T.HasCustomInstComment
    /\ (SGT(ImmV, I64(255)) \/ SLT(ImmV, I64(-256)))

printOperand(T, MI, OpNo) ==
    LET Op == getOperand(MI, OpNo)
    IN  Enter("printOperand", OpNo) \o
        ( IF isReg(Op) THEN printRegName(getReg(Op))
          ELSE IF isImm(Op)
          THEN Lit("$") \o formatImm(T, getImm(Op)) \o
               (IF WantsHexComment(T, getImm(Op)) THEN HexComment(getImm(Op)) ELSE <<>>)
          ELSE Lit("$") \o Put("expr", Op.val) )

\* X86InstPrinterCommon::printOptionalSegReg: "%seg:" when the segment
\* sub-operand names a register.
printOptionalSegReg(T, MI, OpNo) ==
    IF getReg(getOperand(MI, OpNo)) # 0
    THEN printOperand(T, MI, OpNo) \o Lit(":")
    ELSE <<>>

\* unsigned ScaleVal = (unsigned) getImm(): the low 32 bits.
ScaleOf(MI, Op) == CastUInt32(getImm(getOperand(MI, Op + AddrScaleAmt)))

\* printScale with the scale sent through the immediate formatter.
printScaleFormatted(ScaleVal) ==
    IF ScaleVal # << 1, 0 >>
    THEN Lit(",") \o (IF PrintImmHex THEN Put("hex", ScaleVal) ELSE Put("dec", ScaleVal))
    ELSE <<>>

\* The scale of printMemReference, lines 292-296: a plain decimal.
printScale(ScaleVal) ==
    IF ScaleVal # << 1, 0 >>
    THEN Lit(",") \o Put("dec", ScaleVal)
    ELSE <<>>

\* The register part "(base,index,scale)" of printMemReference, lines 284-299.
printMemRegs(T, MI, Op) ==
    LET BaseReg == getOperand(MI, Op + AddrBaseReg)
        IndexReg == getOperand(MI, Op + AddrIndexReg)
    IN  IF getReg(IndexReg) # 0 \/ getReg(BaseReg) # 0
        THEN Lit("(") \o
             (IF getReg(BaseReg) # 0
              THEN printOperand(T, MI, Op + AddrBaseReg) ELSE <<>>) \o
             (IF getReg(IndexReg) # 0
              THEN Lit(",") \o printOperand(T, MI, Op + AddrIndexReg) \o
                   printScale(ScaleOf(MI, Op))
              ELSE <<>>) \o
             Lit(")")
        ELSE <<>>

\* printMemDisp that writes the displacement only when it is nonzero.
printMemDispNonzeroOnly(T, MI, Op) ==
    IF isImm(getOperand(MI, Op + AddrDisp))
    THEN IF getImm(getOperand(MI, Op + AddrDisp)) # I64(0)
         THEN formatImm(T, getImm(getOperand(MI, Op + AddrDisp)))
         ELSE <<>>
    ELSE Put("expr", getOperand(MI, Op + AddrDisp).val)

\* The displacement part of printMemReference, lines 275-282.
printMemDisp(T, MI, Op) ==
    LET BaseReg == getOperand(MI, Op + AddrBaseReg)
        IndexReg == getOperand(MI, Op + AddrIndexReg)
        DispSpec == getOperand(MI, Op + AddrDisp)
    IN  IF isImm(DispSpec)
        THEN IF getImm(DispSpec) # I64(0) \/ (getReg(IndexReg) = 0 /\ getReg(BaseReg) = 0)
             THEN formatImm(T, getImm(DispSpec))
             ELSE <<>>
        ELSE Put("expr", DispSpec.val)

printMemReference(T, MI, Op) ==
    Enter("printMemReference", Op) \o
    printOptionalSegReg(T, MI, Op + AddrSegmentReg) \o
    printMemDisp(T, MI, Op) \o
    printMemRegs(T, MI, Op)

\* printU8Imm without the mask.
printU8ImmUnmasked(T, MI, Op) ==
    IF isExpr(getOperand(MI, Op))
    THEN printOperand(T, MI, Op)
    ELSE Enter("printU8Imm", Op) \o Lit("$") \o
         formatImm(T, getImm(getOperand(MI, Op)))

printU8Imm(T, MI, Op) ==
    IF isExpr(getOperand(MI, Op))
    THEN printOperand(T, MI, Op)
    ELSE Enter("printU8Imm", Op) \o Lit("$") \o
         formatImm(T, AndFF(getImm(getOperand(MI, Op))))

\* ------------------------------------------------------------------------
\* The polymorphic compare resolver (printVecCompareInstr)
\* ------------------------------------------------------------------------
\* Family A: the opcodes of the first case group, lines 91-98.
\* Family B: the opcodes of the second case group, lines 116-175.
VPCOMOpcodes ==
    { "VPCOMBmi", "VPCOMBri", "VPCOMDmi", "VPCOMDri",
      "VPCOMQmi", "VPCOMQri", "VPCOMUBmi", "VPCOMUBri",
      "VPCOMUDmi", "VPCOMUDri", "VPCOMUQmi", "VPCOMUQri",
      "VPCOMUWmi", "VPCOMUWri", "VPCOMWmi", "VPCOMWri" }

VPCMPOpcodes ==
    { "VPCMPBZ128rmi", "VPCMPBZ128rri", "VPCMPBZ256rmi", "VPCMPBZ256rri",
      "VPCMPBZrmi", "VPCMPBZrri", "VPCMPDZ128rmi", "VPCMPDZ128rri",
      "VPCMPDZ256rmi", "VPCMPDZ256rri", "VPCMPDZrmi", "VPCMPDZrri",
      "VPCMPQZ128rmi", "VPCMPQZ128rri", "VPCMPQZ256rmi", "VPCMPQZ256rri",
      "VPCMPQZrmi", "VPCMPQZrri", "VPCMPUBZ128rmi", "VPCMPUBZ128rri",
      "VPCMPUBZ256rmi", "VPCMPUBZ256rri", "VPCMPUBZrmi", "VPCMPUBZrri",
      "VPCMPUDZ128rmi", "VPCMPUDZ128rri", "VPCMPUDZ256rmi", "VPCMPUDZ256rri",
      "VPCMPUDZrmi", "VPCMPUDZrri", "VPCMPUQZ128rmi", "VPCMPUQZ128rri",
      "VPCMPUQZ256rmi", "VPCMPUQZ256rri", "VPCMPUQZrmi", "VPCMPUQZrri",
      "VPCMPUWZ128rmi", "VPCMPUWZ128rri", "VPCMPUWZ256rmi", "VPCMPUWZ256rri",
      "VPCMPUWZrmi", "VPCMPUWZrri", "VPCMPWZ128rmi", "VPCMPWZ128rri",
      "VPCMPWZ256rmi", "VPCMPWZ256rri", "VPCMPWZrmi", "VPCMPWZrri",
      "VPCMPBZ128rmik", "VPCMPBZ128rrik", "VPCMPBZ256rmik", "VPCMPBZ256rrik",
      "VPCMPBZrmik", "VPCMPBZrrik", "VPCMPDZ128rmik", "VPCMPDZ128rrik",
      "VPCMPDZ256rmik", "VPCMPDZ256rrik", "VPCMPDZrmik", "VPCMPDZrrik",
      "VPCMPQZ128rmik", "VPCMPQZ128rrik", "VPCMPQZ256rmik", "VPCMPQZ256rrik",
      "VPCMPQZrmik", "VPCMPQZrrik", "VPCMPUBZ128rmik", "VPCMPUBZ128rrik",
      "VPCMPUBZ256rmik", "VPCMPUBZ256rrik", "VPCMPUBZrmik", "VPCMPUBZrrik",
      "VPCMPUDZ128rmik", "VPCMPUDZ128rrik", "VPCMPUDZ256rmik", "VPCMPUDZ256rrik",
      "VPCMPUDZrmik", "VPCMPUDZrrik", "VPCMPUQZ128rmik", "VPCMPUQZ128rrik",
      "VPCMPUQZ256rmik", "VPCMPUQZ256rrik", "VPCMPUQZrmik", "VPCMPUQZrrik",
      "VPCMPUWZ128rmik", "VPCMPUWZ128rrik", "VPCMPUWZ256rmik", "VPCMPUWZ256rrik",
      "VPCMPUWZrmik", "VPCMPUWZrrik", "VPCMPWZ128rmik", "VPCMPWZ128rrik",
      "VPCMPWZ256rmik", "VPCMPWZ256rrik", "VPCMPWZrmik", "VPCMPWZrrik",
      "VPCMPDZ128rmib", "VPCMPDZ128rmibk", "VPCMPDZ256rmib", "VPCMPDZ256rmibk",
      "VPCMPDZrmib", "VPCMPDZrmibk", "VPCMPQZ128rmib", "VPCMPQZ128rmibk",
      "VPCMPQZ256rmib", "VPCMPQZ256rmibk", "VPCMPQZrmib", "VPCMPQZrmibk",
      "VPCMPUDZ128rmib", "VPCMPUDZ128rmibk", "VPCMPUDZ256rmib", "VPCMPUDZ256rmibk",
      "VPCMPUDZrmib", "VPCMPUDZrmibk", "VPCMPUQZ128rmib", "VPCMPUQZ128rmibk",
      "VPCMPUQZ256rmib", "VPCMPUQZ256rmibk", "VPCMPUQZrmib", "VPCMPUQZrmibk" }

\* The instruction descriptor table (MII.get(Opcode).TSFlags) for the two
\* families: the opcodes whose form is MRMSrcMem, and those with the EVEX_K,
\* EVEX_B, VEX_W, EVEX_L2 and VEX_L bits set.
MRMSrcMemOpcodes ==
    { "VPCOMBmi", "VPCOMDmi", "VPCOMQmi", "VPCOMUBmi",
      "VPCOMUDmi", "VPCOMUQmi", "VPCOMUWmi", "VPCOMWmi",
      "VPCMPBZ128rmi", "VPCMPBZ256rmi", "VPCMPBZrmi", "VPCMPDZ128rmi",
      "VPCMPDZ256rmi", "VPCMPDZrmi", "VPCMPQZ128rmi", "VPCMPQZ256rmi",
      "VPCMPQZrmi", "VPCMPUBZ128rmi", "VPCMPUBZ256rmi", "VPCMPUBZrmi",
      "VPCMPUDZ128rmi", "VPCMPUDZ256rmi", "VPCMPUDZrmi", "VPCMPUQZ128rmi",
      "VPCMPUQZ256rmi", "VPCMPUQZrmi", "VPCMPUWZ128rmi", "VPCMPUWZ256rmi",
      "VPCMPUWZrmi", "VPCMPWZ128rmi", "VPCMPWZ256rmi", "VPCMPWZrmi",
      "VPCMPBZ128rmik", "VPCMPBZ256rmik", "VPCMPBZrmik", "VPCMPDZ128rmik",
      "VPCMPDZ256rmik", "VPCMPDZrmik", "VPCMPQZ128rmik", "VPCMPQZ256rmik",
      "VPCMPQZrmik", "VPCMPUBZ128rmik", "VPCMPUBZ256rmik", "VPCMPUBZrmik",
      "VPCMPUDZ128rmik", "VPCMPUDZ256rmik", "VPCMPUDZrmik", "VPCMPUQZ128rmik",
      "VPCMPUQZ256rmik", "VPCMPUQZrmik", "VPCMPUWZ128rmik", "VPCMPUWZ256rmik",
      "VPCMPUWZrmik", "VPCMPWZ128rmik", "VPCMPWZ256rmik", "VPCMPWZrmik",
      "VPCMPDZ128rmib", "VPCMPDZ128rmibk", "VPCMPDZ256rmib", "VPCMPDZ256rmibk",
      "VPCMPDZrmib", "VPCMPDZrmibk", "VPCMPQZ128rmib", "VPCMPQZ128rmibk",
      "VPCMPQZ256rmib", "VPCMPQZ256rmibk", "VPCMPQZrmib", "VPCMPQZrmibk",
      "VPCMPUDZ128rmib", "VPCMPUDZ128rmibk", "VPCMPUDZ256rmib", "VPCMPUDZ256rmibk",
      "VPCMPUDZrmib", "VPCMPUDZrmibk", "VPCMPUQZ128rmib", "VPCMPUQZ128rmibk",
      "VPCMPUQZ256rmib", "VPCMPUQZ256rmibk", "VPCMPUQZrmib", "VPCMPUQZrmibk" }

EVEX_KOpcodes ==
    { "VPCMPBZ128rmik", "VPCMPBZ128rrik", "VPCMPBZ256rmik", "VPCMPBZ256rrik",
      "VPCMPBZrmik", "VPCMPBZrrik", "VPCMPDZ128rmik", "VPCMPDZ128rrik",
      "VPCMPDZ256rmik", "VPCMPDZ256rrik", "VPCMPDZrmik", "VPCMPDZrrik",
      "VPCMPQZ128rmik", "VPCMPQZ128rrik", "VPCMPQZ256rmik", "VPCMPQZ256rrik",
      "VPCMPQZrmik", "VPCMPQZrrik", "VPCMPUBZ128rmik", "VPCMPUBZ128rrik",
      "VPCMPUBZ256rmik", "VPCMPUBZ256rrik", "VPCMPUBZrmik", "VPCMPUBZrrik",
      "VPCMPUDZ128rmik", "VPCMPUDZ128rrik", "VPCMPUDZ256rmik", "VPCMPUDZ256rrik",
      "VPCMPUDZrmik", "VPCMPUDZrrik", "VPCMPUQZ128rmik", "VPCMPUQZ128rrik",
      "VPCMPUQZ256rmik", "VPCMPUQZ256rrik", "VPCMPUQZrmik", "VPCMPUQZrrik",
      "VPCMPUWZ128rmik", "VPCMPUWZ128rrik", "VPCMPUWZ256rmik", "VPCMPUWZ256rrik",
      "VPCMPUWZrmik", "VPCMPUWZrrik", "VPCMPWZ128rmik", "VPCMPWZ128rrik",
      "VPCMPWZ256rmik", "VPCMPWZ256rrik", "VPCMPWZrmik", "VPCMPWZrrik",
      "VPCMPDZ128rmibk", "VPCMPDZ256rmibk", "VPCMPDZrmibk", "VPCMPQZ128rmibk",
      "VPCMPQZ256rmibk", "VPCMPQZrmibk", "VPCMPUDZ128rmibk", "VPCMPUDZ256rmibk",
      "VPCMPUDZrmibk", "VPCMPUQZ128rmibk", "VPCMPUQZ256rmibk", "VPCMPUQZrmibk" }

EVEX_BOpcodes ==
    { "VPCMPDZ128rmib", "VPCMPDZ128rmibk", "VPCMPDZ256rmib", "VPCMPDZ256rmibk",
      "VPCMPDZrmib", "VPCMPDZrmibk", "VPCMPQZ128rmib", "VPCMPQZ128rmibk",
      "VPCMPQZ256rmib", "VPCMPQZ256rmibk", "VPCMPQZrmib", "VPCMPQZrmibk",
      "VPCMPUDZ128rmib", "VPCMPUDZ128rmibk", "VPCMPUDZ256rmib", "VPCMPUDZ256rmibk",
      "VPCMPUDZrmib", "VPCMPUDZrmibk", "VPCMPUQZ128rmib", "VPCMPUQZ128rmibk",
      "VPCMPUQZ256rmib", "VPCMPUQZ256rmibk", "VPCMPUQZrmib", "VPCMPUQZrmibk" }

VEX_WOpcodes ==
    { "VPCMPQZ128rmi", "VPCMPQZ128rri", "VPCMPQZ256rmi", "VPCMPQZ256rri",
      "VPCMPQZrmi", "VPCMPQZrri", "VPCMPUQZ128rmi", "VPCMPUQZ128rri",
      "VPCMPUQZ256rmi", "VPCMPUQZ256rri", "VPCMPUQZrmi", "VPCMPUQZrri",
      "VPCMPUWZ128rmi", "VPCMPUWZ128rri", "VPCMPUWZ256rmi", "VPCMPUWZ256rri",
      "VPCMPUWZrmi", "VPCMPUWZrri", "VPCMPWZ128rmi", "VPCMPWZ128rri",
      "VPCMPWZ256rmi", "VPCMPWZ256rri", "VPCMPWZrmi", "VPCMPWZrri",
      "VPCMPQZ128rmik", "VPCMPQZ128rrik", "VPCMPQZ256rmik", "VPCMPQZ256rrik",
      "VPCMPQZrmik", "VPCMPQZrrik", "VPCMPUQZ128rmik", "VPCMPUQZ128rrik",
      "VPCMPUQZ256rmik", "VPCMPUQZ256rrik", "VPCMPUQZrmik", "VPCMPUQZrrik",
      "VPCMPUWZ128rmik", "VPCMPUWZ128rrik", "VPCMPUWZ256rmik", "VPCMPUWZ256rrik",
      "VPCMPUWZrmik", "VPCMPUWZrrik", "VPCMPWZ128rmik", "VPCMPWZ128rrik",
      "VPCMPWZ256rmik", "VPCMPWZ256rrik", "VPCMPWZrmik", "VPCMPWZrrik",
      "VPCMPQZ128rmib", "VPCMPQZ128rmibk", "VPCMPQZ256rmib", "VPCMPQZ256rmibk",
      "VPCMPQZrmib", "VPCMPQZrmibk", "VPCMPUQZ128rmib", "VPCMPUQZ128rmibk",
      "VPCMPUQZ256rmib", "VPCMPUQZ256rmibk", "VPCMPUQZrmib", "VPCMPUQZrmibk" }

EVEX_L2Opcodes ==
    { "VPCMPBZrmi", "VPCMPBZrri", "VPCMPDZrmi", "VPCMPDZrri",
      "VPCMPQZrmi", "VPCMPQZrri", "VPCMPUBZrmi", "VPCMPUBZrri",
      "VPCMPUDZrmi", "VPCMPUDZrri", "VPCMPUQZrmi", "VPCMPUQZrri",
      "VPCMPUWZrmi", "VPCMPUWZrri", "VPCMPWZrmi", "VPCMPWZrri",
      "VPCMPBZrmik", "VPCMPBZrrik", "VPCMPDZrmik", "VPCMPDZrrik",
      "VPCMPQZrmik", "VPCMPQZrrik", "VPCMPUBZrmik", "VPCMPUBZrrik",
      "VPCMPUDZrmik", "VPCMPUDZrrik", "VPCMPUQZrmik", "VPCMPUQZrrik",
      "VPCMPUWZrmik", "VPCMPUWZrrik", "VPCMPWZrmik", "VPCMPWZrrik",
      "VPCMPDZrmib", "VPCMPDZrmibk", "VPCMPQZrmib", "VPCMPQZrmibk",
      "VPCMPUDZrmib", "VPCMPUDZrmibk", "VPCMPUQZrmib", "VPCMPUQZrmibk" }

VEX_LOpcodes ==
    { "VPCMPBZ256rmi", "VPCMPBZ256rri", "VPCMPDZ256rmi", "VPCMPDZ256rri",
      "VPCMPQZ256rmi", "VPCMPQZ256rri", "VPCMPUBZ256rmi", "VPCMPUBZ256rri",
      "VPCMPUDZ256rmi", "VPCMPUDZ256rri", "VPCMPUQZ256rmi", "VPCMPUQZ256rri",
      "VPCMPUWZ256rmi", "VPCMPUWZ256rri", "VPCMPWZ256rmi", "VPCMPWZ256rri",
      "VPCMPBZ256rmik", "VPCMPBZ256rrik", "VPCMPDZ256rmik", "VPCMPDZ256rrik",
      "VPCMPQZ256rmik", "VPCMPQZ256rrik", "VPCMPUBZ256rmik", "VPCMPUBZ256rrik",
      "VPCMPUDZ256rmik", "VPCMPUDZ256rrik", "VPCMPUQZ256rmik", "VPCMPUQZ256rrik",
      "VPCMPUWZ256rmik", "VPCMPUWZ256rrik", "VPCMPWZ256rmik", "VPCMPWZ256rrik",
      "VPCMPDZ256rmib", "VPCMPDZ256rmibk", "VPCMPQZ256rmib", "VPCMPQZ256rmibk",
      "VPCMPUDZ256rmib", "VPCMPUDZ256rmibk", "VPCMPUQZ256rmib", "VPCMPUQZ256rmibk" }

TSFlags(Opcode) ==
    [ Form    |-> IF Opcode \in MRMSrcMemOpcodes THEN "MRMSrcMem" ELSE "MRMSrcReg",
      EVEX_K  |-> Opcode \in EVEX_KOpcodes,
      EVEX_B  |-> Opcode \in EVEX_BOpcodes,
      VEX_W   |-> Opcode \in VEX_WOpcodes,
      EVEX_L2 |-> Opcode \in EVEX_L2Opcodes,
      VEX_L   |-> Opcode \in VEX_LOpcodes ]

\* printVPCOMMnemonic / printVPCMPMnemonic: the mnemonic of the opcode with the
\* comparison named by the trailing immediate folded in.
printVecMnemonic(MI) ==
    Put(MI.Opcode, getImm(getOperand(MI, getNumOperands(MI) - 1)))

\* printdwordmem, printqwordmem, printxmmwordmem, printymmwordmem,
\* printzmmwordmem: in AT&T syntax each prints the memory reference.
printSizedMem(T, size, MI, OpNo) ==
    Enter(size, OpNo) \o printMemReference(T, MI, OpNo)

\* Family A body, lines 100-112.
printVPCOM(T, MI) ==
    Lit("tab") \o printVecMnemonic(MI) \o
    (IF TSFlags(MI.Opcode).Form = "MRMSrcMem"
     THEN printSizedMem(T, "printxmmwordmem", MI, 2)
     ELSE printOperand(T, MI, 2)) \o
    Lit(", ") \o printOperand(T, MI, 1) \o
    Lit(", ") \o printOperand(T, MI, 0)

\* The initial operand cursor of Family B, line 180.
InitialCurOp(Desc) == IF Desc.EVEX_K THEN 3 ELSE 2

\* The number of broadcast elements, lines 192-198.
NumElts(Desc) ==
    IF Desc.EVEX_L2 THEN (IF Desc.VEX_W THEN 8 ELSE 16)
    ELSE IF Desc.VEX_L THEN (IF Desc.VEX_W THEN 4 ELSE 8)
    ELSE (IF Desc.VEX_W THEN 2 ELSE 4)

\* Which sized memory printer Family B uses, lines 183-207.
VPCMPMemPrinter(Desc) ==
    IF Desc.EVEX_B
    THEN (IF Desc.VEX_W THEN "printqwordmem" ELSE "printdwordmem")
    ELSE IF Desc.EVEX_L2 THEN "printzmmwordmem"
    ELSE IF Desc.VEX_L THEN "printymmwordmem"
    ELSE "printxmmwordmem"

\* The first-printed source of Family B, lines 182-210.
printVPCMPSource(T, Desc, MI, CurOp) ==
    IF Desc.Form = "MRMSrcMem"
    THEN printSizedMem(T, VPCMPMemPrinter(Desc), MI, CurOp) \o
         (IF Desc.EVEX_B THEN Put("{1to}", << NumElts(Desc) >>) ELSE <<>>)
    ELSE printOperand(T, MI, CurOp)

\* printVPCMPMask with the test "CurOp > 0" written "CurOp >= 0".
printVPCMPMaskOffByOne(T, MI, CurOp) ==
    IF CurOp >= 0
    THEN Lit(" {") \o printOperand(T, MI, CurOp) \o Lit("}")
    ELSE <<>>

\* The trailing mask operand of Family B, lines 216-221; CurOp is the cursor
\* left after the two sources.
printVPCMPMask(T, MI, CurOp) ==
    IF CurOp > 0
    THEN Lit(" {") \o printOperand(T, MI, CurOp) \o Lit("}")
    ELSE <<>>

\* Family B body, lines 177-223.  Each CurOp-- passes the cursor and lowers it.
printVPCMP(T, MI) ==
    LET CurOp == InitialCurOp(TSFlags(MI.Opcode))
    IN  Lit("tab") \o printVecMnemonic(MI) \o
        printVPCMPSource(T, TSFlags(MI.Opcode), MI, CurOp) \o
        Lit(", ") \o printOperand(T, MI, CurOp - 1) \o
        Lit(", ") \o printOperand(T, MI, 0) \o
        printVPCMPMask(T, MI, CurOp - 2)

\* The legal immediates of the two families, lines 99 and 176.
VPCOMImmOK(ImmV) == SGE(ImmV, I64(0)) /\ SLE(ImmV, I64(7))

\* VPCMPImmOK that takes the whole range 0..6.
VPCMPImmOKContiguous(ImmV) == SGE(ImmV, I64(0)) /\ SLE(ImmV, I64(6))

VPCMPImmOK(ImmV) ==
    \/ (SGE(ImmV, I64(0)) /\ SLE(ImmV, I64(2)))
    \/ (SGE(ImmV, I64(4)) /\ SLE(ImmV, I64(6)))

\* Which body printVecCompareInstr runs: "VPCOM", "VPCMP" or "" (return false).
VecCompareCase(MI) ==
    IF getNumOperands(MI) = 0 \/ ~isImm(getOperand(MI, getNumOperands(MI) - 1))
    THEN ""
    ELSE IF MI.Opcode \in VPCOMOpcodes
            /\ VPCOMImmOK(getImm(getOperand(MI, getNumOperands(MI) - 1)))
    THEN "VPCOM"
    ELSE IF MI.Opcode \in VPCMPOpcodes
            /\ VPCMPImmOK(getImm(getOperand(MI, getNumOperands(MI) - 1)))
    THEN "VPCMP"
    ELSE ""

\* Returns [ret |-> handled, out |-> its effects].
printVecCompareInstr(T, MI) ==
    [ ret |-> VecCompareCase(MI) # "",
      out |-> Enter("printVecCompareInstr", 0) \o
              ( IF VecCompareCase(MI) = "VPCOM" THEN printVPCOM(T, MI)
                ELSE IF VecCompareCase(MI) = "VPCMP" THEN printVPCMP(T, MI)
                ELSE <<>> ) ]

\* ------------------------------------------------------------------------
\* The top-level driver (printInst) and its collaborators
\* ------------------------------------------------------------------------
\* EmitAnyX86InstComments: writes the opcode-specific comment (shuffle masks
\* and the like) and says whether it wrote one.
CustomCommentOpcodes == { "PSHUFDri" }

EmitAnyX86InstComments(MI) ==
    [ ret |-> MI.Opcode \in CustomCommentOpcodes,
      out |-> Enter("EmitAnyX86InstComments", 0) \o
              (IF MI.Opcode \in CustomCommentOpcodes
               THEN PutComment("custom", <<>>) ELSE <<>>) ]

\* printInstFlags: the lock/rep style prefixes carried in the MCInst flags.
printInstFlags(MI) ==
    Enter("printInstFlags", 0) \o
    (IF MI.Flags = "IP_HAS_LOCK" THEN Lit("lock") ELSE <<>>)

\* printPCRelImm: a pc-relative target, an immediate or an expression.
printPCRelImm(T, MI, OpNo) ==
    Enter("printPCRelImm", OpNo) \o
    (IF isImm(getOperand(MI, OpNo))
     THEN formatImm(T, getImm(getOperand(MI, OpNo)))
     ELSE Put("expr", getOperand(MI, OpNo).val))

\* printAliasInstr (generated): alias says whether the alias table matched.
printAliasInstr(MI, alias) ==
    [ ret |-> alias,
      out |-> Enter("printAliasInstr", 0) \o (IF alias THEN Lit("alias") ELSE <<>>) ]

\* printInstruction (generated): the generic per-opcode template.
printInstruction(MI) == Enter("printInstruction", 0) \o Lit("instruction")

\* printAnnotation: the caller's annotation text, if any.
printAnnotation(Annot) ==
    Enter("printAnnotation", 0) \o (IF Annot # "" THEN Lit(Annot) ELSE <<>>)

\* printDispatch that runs the generic template whatever the resolver said.
printDispatchAlwaysGeneric(T, MI, alias) ==
    printAliasInstr(MI, alias).out \o
    ( IF printAliasInstr(MI, alias).ret THEN <<>>
      ELSE printVecCompareInstr(T, MI).out \o printInstruction(MI) )

\* The alias / resolver / generic chain of printInst, lines 70-72.
printDispatch(T, MI, alias) ==
    printAliasInstr(MI, alias).out \o
    ( IF printAliasInstr(MI, alias).ret THEN <<>>
      ELSE LET v == printVecCompareInstr(T, MI)
           IN  v.out \o (IF v.ret THEN <<>> ELSE printInstruction(MI)) )

\* The if / else-if chain of printInst, lines 55-72.
printInstText(T, MI, STI, alias) ==
    IF MI.Opcode = "CALLpcrel32" /\ "Mode64Bit" \in STI
    THEN Lit("callq") \o printPCRelImm(T, MI, 0)
    ELSE IF MI.Opcode = "DATA16_PREFIX" /\ "Mode16Bit" \in STI
    THEN Lit("data32")
    ELSE printDispatch(T, MI, alias)

\* printInstComments that drops the assignment to HasCustomInstComment.
printInstCommentsNoAssign(T, MI) ==
    IF T.CommentStream
    THEN [ret |-> T.HasCustomInstComment, out |-> EmitAnyX86InstComments(MI).out]
    ELSE [ret |-> T.HasCustomInstComment, out |-> <<>>]

\* The comment pre-pass of printInst, lines 44-45:
\* [ret |-> HasCustomInstComment afterwards, out |-> its effects].
printInstComments(T, MI) ==
    IF T.CommentStream
    THEN EmitAnyX86InstComments(MI)
    ELSE [ret |-> T.HasCustomInstComment, out |-> <<>>]

\* printInst that returns from the callq exception without the annotation.
printInstCallqReturnsEarly(T, MI, Annot, STI, alias) ==
    [ HasCustomInstComment |-> printInstComments(T, MI).ret,
      out |-> printInstComments(T, MI).out \o
              printInstFlags(MI) \o
              printInstText([T EXCEPT !.HasCustomInstComment = printInstComments(T, MI).ret],
                            MI, STI, alias) \o
              (IF MI.Opcode = "CALLpcrel32" /\ "Mode64Bit" \in STI
               THEN <<>> ELSE printAnnotation(Annot)) ]

\* printInst: [HasCustomInstComment |-> the flag afterwards, out |-> its effects].
printInst(T, MI, Annot, STI, alias) ==
    [ HasCustomInstComment |-> printInstComments(T, MI).ret,
      out |-> printInstComments(T, MI).out \o
              printInstFlags(MI) \o
              printInstText([T EXCEPT !.HasCustomInstComment = printInstComments(T, MI).ret],
                            MI, STI, alias) \o
              printAnnotation(Annot) ]

\* ------------------------------------------------------------------------
\* Inputs
\* ------------------------------------------------------------------------
\* Immediates around every boundary the code tests: the [-256, 255] range,
\* the int16_t and int32_t ranges, and values that need all 64 bits
\* (2^31, 2^32 - 1, 5000000000, -2^31, -2^31 - 1, INT64_MIN, INT64_MAX).
ImmValues ==
    { I64(n) : n \in { -70000, -32769, -32768, -257, -256, -1, 0, 1, 255, 256,
                       300, 511, 32767, 32768, 40000, 65535, 65536, 70000,
                       2147483647 } }
    \cup { << 0, 32768, 0, 0 >>, << 65535, 65535, 0, 0 >>, << 61952, 10757, 1, 0 >>,
           << 0, 32768, 65535, 65535 >>, << 65535, 32767, 65535, 65535 >>,
           << 0, 0, 0, 32768 >>, << 65535, 65535, 65535, 32767 >> }

Exprs == { Expr(1) }

OperandValues ==
    { Reg(r) : r \in 1..NumRegs } \cup { Imm(v) : v \in ImmValues } \cup Exprs

\* An instruction with no operands, used where a call has no instruction.
NoInst == [Opcode |-> "", Flags |-> "", Operands |-> <<>>]

Inst(Opcode, Operands) == [Opcode |-> Opcode, Flags |-> "", Operands |-> Operands]

\* A register destination followed by one operand (or operand group) at index 1.
OperandInsts == { Inst("OP", << Reg(1), op >>) : op \in OperandValues }

ScaleValues == { 1, 2, 4, 8 }
DispValues == { Imm(I64(0)), Imm(I64(2)), Imm(I64(-8)), Imm(I64(300)), Expr(1) }

MemGroup(base, scale, index, disp, seg) ==
    << Reg(base), Imm(I64(scale)), Reg(index), disp, Reg(seg) >>

MemInsts ==
    { Inst("MEM", << Reg(1) >> \o MemGroup(b, s, i, d, g)) :
        b \in 0..NumRegs, s \in ScaleValues, i \in 0..NumRegs,
        d \in DispValues, g \in 0..1 }

\* The compare opcodes given to the printer: every combination of register /
\* memory source, mask, broadcast, element width and vector length.
ModelVecOpcodes ==
    { "VPCOMBmi", "VPCOMBri", "VPCOMUQri",
      "VPCMPBZ128rri", "VPCMPBZ128rmi", "VPCMPDZ256rmi", "VPCMPQZrmi",
      "VPCMPWZ256rrik", "VPCMPUBZrmik",
      "VPCMPDZ128rmib", "VPCMPQZ128rmib", "VPCMPDZ256rmib", "VPCMPQZ256rmib",
      "VPCMPDZrmib", "VPCMPQZrmib", "VPCMPUDZ128rmibk", "VPCMPUQZrmibk" }

\* Trailing immediates of the compare opcodes: -1, 0..8 and 0x100000003.
VecImms == { I64(n) : n \in -1..8 } \cup { << 3, 0, 1, 0 >> }

\* The operand list the descriptor of a compare opcode declares:
\* destination, [mask,] first source, second source (register or memory
\* group), condition.
VecOperands(Opcode, last) ==
    LET Desc == TSFlags(Opcode)
        head == IF Desc.EVEX_K THEN << Reg(1), Reg(2), Reg(1) >> ELSE << Reg(1), Reg(2) >>
        src  == IF Desc.Form = "MRMSrcMem"
                THEN MemGroup(1, 4, 2, Imm(I64(300)), 0) ELSE << Reg(2) >>
    IN  head \o src \o << last >>

VecInsts ==
    { Inst(o, VecOperands(o, Imm(v))) : o \in ModelVecOpcodes, v \in VecImms }
    \cup { Inst(o, VecOperands(o, Expr(1))) : o \in { "VPCOMBri", "VPCMPBZ128rri" } }

OtherInsts ==
    { Inst("CALLpcrel32", << Imm(I64(16)) >>),
      Inst("CALLpcrel32", << Expr(1) >>),
      Inst("DATA16_PREFIX", <<>>),
      Inst("NOOP", <<>>),
      Inst("ADD32ri", << Reg(1), Reg(1), Imm(I64(300)) >>),
      Inst("ADD32rr", << Reg(1), Reg(1), Reg(2) >>),
      Inst("PSHUFDri", << Reg(1), Reg(2), Imm(I64(27)) >>),
      [Opcode |-> "XCHG32rr", Flags |-> "IP_HAS_LOCK",
       Operands |-> << Reg(1), Reg(2), Reg(1), Reg(2) >>] }

Instructions == VecInsts \cup OtherInsts

SubtargetModes == { { "Mode64Bit" }, { "Mode32Bit" }, { "Mode16Bit" } }

Annotations == { "", "annotation" }

\* ------------------------------------------------------------------------
\* State machine
\* ------------------------------------------------------------------------
this == [CommentStream |-> CommentStream, PrintImmHex |-> PrintImmHex,
         HasCustomInstComment |-> HasCustomInstComment]

Request(fn, MI, OpNo, STI, Annot, alias) ==
    [fn |-> fn, MI |-> MI, OpNo |-> OpNo, STI |-> STI, Annot |-> Annot, alias |-> alias]

SimpleCall(fn, MI, OpNo) == Request(fn, MI, OpNo, {}, "", FALSE)

\* No print request is in progress: the caller holds no streams.
NoCall == SimpleCall("", NoInst, 0)

Idle == call = NoCall

\* The text written to the output stream, the comments written to the
\* comment sink and the formatter calls made by the last request.
OS == SelectSeq(out, LAMBDA e : e.s = "OS")
CS == SelectSeq(out, LAMBDA e : e.s = "CS")
calls == SelectSeq(out, LAMBDA e : e.s = "call")

Init ==
    /\ CommentStream = FALSE
    /\ PrintImmHex = FALSE
    /\ HasCustomInstComment = FALSE
    /\ call = NoCall
    /\ out = <<>>
    /\ ret = FALSE

\* MCInstPrinter::setCommentStream: attach or detach the comment sink.
SetCommentStream ==
    /\ Idle
    /\ \E b \in BOOLEAN :
        /\ CommentStream' = b
        /\ UNCHANGED << PrintImmHex, HasCustomInstComment, call, out, ret >>

\* MCInstPrinter::setPrintImmHex: choose hexadecimal or decimal immediates.
SetPrintImmHex ==
    /\ Idle
    /\ \E b \in BOOLEAN :
        /\ PrintImmHex' = b
        /\ UNCHANGED << CommentStream, HasCustomInstComment, call, out, ret >>

PrintInst ==
    /\ Idle
    /\ \E MI \in Instructions, Annot \in Annotations, STI \in SubtargetModes, alias \in BOOLEAN :
        /\ HasCustomInstComment' = printInst(this, MI, Annot, STI, alias).HasCustomInstComment
        /\ call' = Request("printInst", MI, 0, STI, Annot, alias)
        /\ out' = printInst(this, MI, Annot, STI, alias).out
        /\ ret' = FALSE
        /\ UNCHANGED << CommentStream, PrintImmHex >>

PrintVecCompareInstr ==
    /\ Idle
    /\ \E MI \in Instructions :
        /\ call' = SimpleCall("printVecCompareInstr", MI, 0)
        /\ out' = printVecCompareInstr(this, MI).out
        /\ ret' = printVecCompareInstr(this, MI).ret
        /\ UNCHANGED << CommentStream, PrintImmHex, HasCustomInstComment >>

PrintOperand ==
    /\ Idle
    /\ \E MI \in OperandInsts :
        /\ call' = SimpleCall("printOperand", MI, 1)
        /\ out' = printOperand(this, MI, 1)
        /\ ret' = FALSE
        /\ UNCHANGED << CommentStream, PrintImmHex, HasCustomInstComment >>

PrintMemReference ==
    /\ Idle
    /\ \E MI \in MemInsts :
        /\ call' = SimpleCall("printMemReference", MI, 1)
        /\ out' = printMemReference(this, MI, 1)
        /\ ret' = FALSE
        /\ UNCHANGED << CommentStream, PrintImmHex, HasCustomInstComment >>

PrintU8Imm ==
    /\ Idle
    /\ \E MI \in { m \in OperandInsts : ~isReg(getOperand(m, 1)) } :
        /\ call' = SimpleCall("printU8Imm", MI, 1)
        /\ out' = printU8Imm(this, MI, 1)
        /\ ret' = FALSE
        /\ UNCHANGED << CommentStream, PrintImmHex, HasCustomInstComment >>

\* The caller takes the text and the comments of the finished request and
\* discards its streams; the next request starts with fresh ones.
Discard ==
    /\ ~Idle
    /\ call' = NoCall
    /\ out' = <<>>
    /\ ret' = FALSE
    /\ UNCHANGED << CommentStream, PrintImmHex, HasCustomInstComment >>

Next ==
    \/ SetCommentStream
    \/ SetPrintImmHex
    \/ PrintInst
    \/ PrintVecCompareInstr
    \/ PrintOperand
    \/ PrintMemReference
    \/ PrintU8Imm
    \/ Discard

Spec == Init /\ [][Next]_vars

\* ------------------------------------------------------------------------
\* Properties
\* ------------------------------------------------------------------------
\* The instruction and the operand (group) the finished request was about.
ReqMI == call.MI
ReqOp == getOperand(call.MI, call.OpNo)

\* The 64-bit values 0 .. n, and the range [-256, 255], written out.
Range64(lo, hi) == { I64(n) : n \in lo..hi }

IsNumber(e) == e.k \in { "dec", "hex" }

\* --- printMemReference ---------------------------------------------------
MemBase  == getReg(getOperand(ReqMI, call.OpNo + 0))
MemScale == getImm(getOperand(ReqMI, call.OpNo + 1))
MemIndex == getReg(getOperand(ReqMI, call.OpNo + 2))
MemDisp  == getOperand(ReqMI, call.OpNo + 3)
MemSeg   == getReg(getOperand(ReqMI, call.OpNo + 4))

\* The text after the optional "%seg:" prefix.
AddrText == IF MemSeg # 0 THEN SubSeq(OS, 3, Len(OS)) ELSE OS

\* Where the parenthesised register part starts (past the end if there is none).
ParenPos ==
    IF \E i \in 1..Len(AddrText) : AddrText[i].k = "("
    THEN CHOOSE i \in 1..Len(AddrText) :
            AddrText[i].k = "(" /\ \A j \in 1..(i - 1) : AddrText[j].k # "("
    ELSE Len(AddrText) + 1

DispWritten ==
    /\ ParenPos = 2
    /\ IsNumber(AddrText[1])
    /\ AddrText[1].v = MemDisp.val

NothingBeforeParen == ParenPos = 1

RegPartWritten ==
    /\ ParenPos <= Len(AddrText)
    /\ AddrText[Len(AddrText)].k = ")"

\* The number tokens inside the parentheses: the scale, if written.
ScaleTokens == { i \in (ParenPos + 1)..Len(AddrText) : IsNumber(AddrText[i]) }

\* C1: in printMemReference with an immediate displacement, the displacement
\* is written iff it is nonzero or base and index are both absent, and the
\* parenthesised register part is written iff base or index is present; so
\* no base, no index, displacement 0 prints the literal 0, and a base alone
\* with displacement 0 prints only "(base)".
C1_DispAndRegPart ==
    (call.fn = "printMemReference" /\ isImm(MemDisp)) =>
        /\ DispWritten <=> (MemDisp.val # << 0, 0, 0, 0 >> \/ (MemBase = 0 /\ MemIndex = 0))
        /\ ~DispWritten => NothingBeforeParen
        /\ RegPartWritten <=> (MemBase # 0 \/ MemIndex # 0)
        /\ ~RegPartWritten => ParenPos = Len(AddrText) + 1
        /\ (MemBase = 0 /\ MemIndex = 0 /\ MemDisp.val = << 0, 0, 0, 0 >>) =>
               (Len(AddrText) = 1 /\ IsNumber(AddrText[1])
                /\ AddrText[1].v = << 0, 0, 0, 0 >>)
        /\ (MemBase # 0 /\ MemIndex = 0 /\ MemDisp.val = << 0, 0, 0, 0 >>) =>
               (Len(AddrText) = 3 /\ AddrText[1].k = "("
                /\ AddrText[2].k = "reg" /\ AddrText[2].v = << MemBase >>
                /\ AddrText[3].k = ")")

C1_Witness ==
    /\ call.fn = "printMemReference"
    /\ MemBase = 0 /\ MemIndex = 0 /\ MemSeg = 0
    /\ MemDisp = Imm(<< 0, 0, 0, 0 >>)
    /\ PrintImmHex
    /\ OS = Put("hex", << 0, 0, 0, 0 >>)

\* C2 as stated: a scale of 1 is never printed, and a scale of 2, 4 or 8 is
\* always printed, as a plain decimal.
C2_ScaleAlwaysPrinted ==
    call.fn = "printMemReference" =>
        /\ MemScale = << 1, 0, 0, 0 >> => ScaleTokens = {}
        /\ MemScale \in { << 2, 0, 0, 0 >>, << 4, 0, 0, 0 >>, << 8, 0, 0, 0 >> } =>
               \E i \in ScaleTokens :
                   AddrText[i].k = "dec" /\ AddrText[i].v = << MemScale[1], 0 >>

\* C2 (amended): a scale of 1 is never printed; a scale of 2, 4 or 8 is
\* printed exactly when an index register is present, and then once, after
\* the index, as a plain decimal whatever the immediate format mode is.
C2_ScalePrintedWithIndex ==
    call.fn = "printMemReference" =>
        /\ MemScale = << 1, 0, 0, 0 >> => ScaleTokens = {}
        /\ MemScale \in { << 2, 0, 0, 0 >>, << 4, 0, 0, 0 >>, << 8, 0, 0, 0 >> } =>
               IF MemIndex # 0
               THEN /\ ScaleTokens = { Len(AddrText) - 1 }
                    /\ AddrText[Len(AddrText) - 1].k = "dec"
                    /\ AddrText[Len(AddrText) - 1].v = << MemScale[1], 0 >>
                    /\ AddrText[Len(AddrText) - 2].k = ","
                    /\ AddrText[Len(AddrText) - 3].k = "reg"
                    /\ AddrText[Len(AddrText) - 3].v = << MemIndex >>
               ELSE ScaleTokens = {}

C2_Witness ==
    /\ call.fn = "printMemReference"
    /\ PrintImmHex
    /\ MemIndex # 0
    /\ MemScale = << 4, 0, 0, 0 >>
    /\ \E i \in ScaleTokens : AddrText[i] = [s |-> "OS", k |-> "dec", v |-> << 4, 0 >>]

\* --- printOperand ---------------------------------------------------------
HexComments == { i \in 1..Len(CS) : CS[i].k = "imm = 0x" }

\* C3: printOperand writes a hex-value comment iff a comment sink is attached,
\* HasCustomInstComment is false, and the operand is an immediate outside
\* [-256, 255]; registers and expressions never produce one.
C3_HexCommentIff ==
    call.fn = "printOperand" =>
        /\ HexComments # {} <=>
              /\ CommentStream
              /\ ~HasCustomInstComment
              /\ isImm(ReqOp)
              /\ ReqOp.val \notin Range64(-256, 255)
        /\ Len(CS) <= 1
        /\ HexComments = {} => CS = <<>>

C3_Witness ==
    /\ call.fn = "printOperand"
    /\ ReqOp = Imm(I64(256))
    /\ HexComments = { 1 }

\* Sign- and zero-extension of the low n limbs (16 * n bits) of x to 64 bits.
LowLimbs(x, n) == SubSeq(x, 1, n)

ZeroExtended(l) == [ i \in 1..4 |-> IF i <= Len(l) THEN l[i] ELSE 0 ]

SignExtended(l) ==
    [ i \in 1..4 |-> IF i <= Len(l) THEN l[i]
                     ELSE IF l[Len(l)] >= 2^15 THEN 2^16 - 1 ELSE 0 ]

RoundTrips(x, n) ==
    \/ SignExtended(LowLimbs(x, n)) = x
    \/ ZeroExtended(LowLimbs(x, n)) = x

\* The narrowest of 16, 32 and 64 bits (1, 2 and 4 limbs) that round-trips x.
NarrowestLimbs(x) ==
    CHOOSE n \in { 1, 2, 4 } :
        RoundTrips(x, n) /\ \A m \in { 1, 2, 4 } : m < n => ~RoundTrips(x, m)

\* The hexadecimal digit of weight 16^p in the limbs.
DigitAt(l, p) == (l[(p \div 4) + 1] \div (16 ^ (p % 4))) % 16

\* The digits ds (most significant first) are the hex rendering of exactly
\* the low n limbs of x: no leading zero, and digit for digit the same bits.
ShowsLowLimbs(ds, x, n) ==
    /\ Len(ds) >= 1
    /\ Len(ds) <= 4 * n
    /\ ds[1] # 0 \/ Len(ds) = 1
    /\ \A p \in 0..(4 * n - 1) :
          (IF p < Len(ds) THEN ds[Len(ds) - p] ELSE 0) = DigitAt(LowLimbs(x, n), p)

\* C4: when printOperand writes a hex-value comment for Imm, the rendering is
\* that of the low W bits of Imm, W the narrowest of 16, 32, 64 for which
\* sign- or zero-extending the low W bits gives Imm back; it is wider than
\* the next narrower width could show.
C4_NarrowestWidth ==
    (call.fn = "printOperand" /\ HexComments # {}) =>
        LET n == NarrowestLimbs(ReqOp.val)
        IN  /\ ShowsLowLimbs(CS[1].v, ReqOp.val, n)
            /\ Len(CS[1].v) > 4 * (n \div 2)

C4_Witness ==
    /\ call.fn = "printOperand"
    /\ ReqOp = Imm(I64(40000))
    /\ CS = PutComment("imm = 0x", << 9, 12, 4, 0 >>)

\* --- printInst ------------------------------------------------------------
\* The indices in out of the calls of fn, and of the text tokens k.
CallsOf(fn) == { i \in 1..Len(out) : out[i].s = "call" /\ out[i].k = fn }
TextOf(k) == { i \in 1..Len(out) : out[i].s = "OS" /\ out[i].k = k }

\* One of the two hard-coded exceptions matches the request.
CallqException == ReqMI.Opcode = "CALLpcrel32" /\ "Mode64Bit" \in call.STI
Data32Exception == ReqMI.Opcode = "DATA16_PREFIX" /\ "Mode16Bit" \in call.STI

\* The rendering paths that wrote text, by the token each starts with.
PathsThatWrote ==
    { k \in { "callq", "data32", "alias", "tab", "instruction" } : TextOf(k) # {} }

\* The dispatcher calls made, in order.
DispatchCalls ==
    SelectSeq(out, LAMBDA e : e.s = "call" /\ e.k \in
                { "printAliasInstr", "printVecCompareInstr", "printInstruction" })

DispatchNames == [ i \in 1..Len(DispatchCalls) |-> DispatchCalls[i].k ]

\* C5: every printInst call renders through exactly one path.  A matching
\* exception prints its fixed text and runs none of alias, resolver, generic;
\* otherwise they are tried in the order alias, resolver, generic, each only
\* if every earlier one did not handle the instruction, and exactly one of
\* them writes the text.
C5_ExactlyOnePath ==
    call.fn = "printInst" =>
        /\ Cardinality(PathsThatWrote) = 1
        /\ CallqException => (PathsThatWrote = { "callq" } /\ DispatchNames = <<>>)
        /\ Data32Exception => (PathsThatWrote = { "data32" } /\ DispatchNames = <<>>)
        /\ ~(CallqException \/ Data32Exception) =>
              /\ DispatchNames \in
                    { << "printAliasInstr" >>,
                      << "printAliasInstr", "printVecCompareInstr" >>,
                      << "printAliasInstr", "printVecCompareInstr", "printInstruction" >> }
              /\ Len(DispatchNames) = 1 <=> call.alias
              /\ Len(DispatchNames) = 1 => PathsThatWrote = { "alias" }
              /\ Len(DispatchNames) = 2 => PathsThatWrote = { "tab" }
              /\ Len(DispatchNames) = 3 => PathsThatWrote = { "instruction" }

C5_Witness ==
    /\ call.fn = "printInst"
    /\ ReqMI.Opcode = "VPCMPUQZrmibk"
    /\ DispatchNames = << "printAliasInstr", "printVecCompareInstr" >>
    /\ PathsThatWrote = { "tab" }

\* The instruction text and the calls that render it: everything printInst
\* does apart from the comment pre-pass, the flag prefixes and the annotation.
IsRendering(e) ==
    \/ e.s = "OS" /\ e.k \notin { "lock", "annotation" }
    \/ e.s = "call" /\ e.k \notin { "EmitAnyX86InstComments", "printInstFlags",
                                    "printAnnotation" }
    \/ e.s = "CS" /\ e.k = "imm = 0x"

\* C6: in every printInst call the order is: the opcode-specific comment
\* pre-pass (only with a comment sink attached), then the flag prefixes, then
\* the instruction text, then the annotation; the annotation is printed
\* exactly once and last, on every rendering path.
C6_StepOrder ==
    call.fn = "printInst" =>
        /\ CallsOf("EmitAnyX86InstComments") = (IF CommentStream THEN { 1 } ELSE {})
        /\ Cardinality(CallsOf("printInstFlags")) = 1
        /\ Cardinality(CallsOf("printAnnotation")) = 1
        /\ \A f \in CallsOf("printInstFlags"), a \in CallsOf("printAnnotation") :
              /\ f < a
              /\ \A i \in 1..Len(out) :
                    /\ (out[i].s = "CS" /\ out[i].k = "custom") => i < f
                    /\ (out[i].s = "OS" /\ out[i].k = "lock") => (f < i /\ i < a)
                    /\ IsRendering(out[i]) => (f < i /\ i < a)
                    /\ i > a => (out[i].s = "OS" /\ out[i].k = call.Annot)
              /\ \E i \in (f + 1)..(a - 1) : IsRendering(out[i]) /\ out[i].s = "OS"
              /\ Len(out) = (IF call.Annot # "" THEN a + 1 ELSE a)

C6_Witness ==
    /\ call.fn = "printInst"
    /\ CommentStream
    /\ CallqException
    /\ call.Annot = "annotation"
    /\ Len(out) = 7
    /\ out[7] = [s |-> "OS", k |-> "annotation", v |-> <<>>]

\* --- printVecCompareInstr ---------------------------------------------------
LastOperand == getOperand(ReqMI, getNumOperands(ReqMI) - 1)

\* The instructions the resolver is to handle.
ResolverHandles ==
    /\ getNumOperands(ReqMI) > 0
    /\ LastOperand.kind = "imm"
    /\ \/ ReqMI.Opcode \in VPCOMOpcodes /\ LastOperand.val \in Range64(0, 7)
       \/ ReqMI.Opcode \in VPCMPOpcodes
          /\ LastOperand.val \in Range64(0, 2) \cup Range64(4, 6)

\* C7: printVecCompareInstr returns true, having written text, iff the last
\* operand is an immediate and the opcode is of Family A with immediate 0..7
\* or of Family B with immediate in {0,1,2,4,5,6}; otherwise it returns false
\* and has written nothing.
C7_ResolverHandlesIff ==
    call.fn = "printVecCompareInstr" =>
        /\ ret <=> ResolverHandles
        /\ ret => (Len(OS) >= 2 /\ OS[1].k = "tab" /\ OS[2].k = ReqMI.Opcode)
        /\ ~ret => (OS = <<>> /\ CS = <<>>)

C7_Witness ==
    /\ call.fn = "printVecCompareInstr"
    /\ ReqMI.Opcode \in VPCMPOpcodes
    /\ LastOperand = Imm(I64(3))
    /\ ~ret
    /\ OS = <<>>

\* The operand indices handed to the formatters, in order; for a memory source
\* the index of the group, once.
InGroup(i) ==
    \E j \in 1..(i - 1) :
        /\ calls[j].k = "printMemReference"
        /\ calls[i].k = "printOperand"
        /\ calls[i].v[1] \in calls[j].v[1]..(calls[j].v[1] + 4)

PrintedOperands ==
    LET top == SelectSeq([ i \in 1..Len(calls) |-> [c |-> calls[i], nested |-> InGroup(i)] ],
                         LAMBDA x : ~x.nested /\ x.c.k \in { "printOperand", "printMemReference" })
    IN  [ i \in 1..Len(top) |-> top[i].c.v[1] ]

\* The operand indices a memory source covers.
GroupIndices ==
    UNION { calls[j].v[1]..(calls[j].v[1] + 4) :
              j \in { i \in 1..Len(calls) : calls[i].k = "printMemReference" } }

\* The operands printed inside the trailing braces.
MaskOperands ==
    { out[i + 1].v[1] : i \in { j \in 1..(Len(out) - 1) : out[j].s = "OS" /\ out[j].k = " {" } }

IsMasked(Opcode) == Opcode \in EVEX_KOpcodes

\* C8: when the resolver handles a Family B instruction, the operand cursor
\* starts at 3 with the mask flag and at 2 without, the first-printed source
\* is at the cursor's start, the second source one below, the destination is
\* operand 0, and a trailing " {...}" mask operand is printed iff the mask
\* flag is set, and is operand 1.  No operand is printed twice and the
\* trailing immediate is never printed as an operand.
C8_FamilyBOperands ==
    (call.fn = "printVecCompareInstr" /\ ret /\ ReqMI.Opcode \in VPCMPOpcodes) =>
        LET start == IF IsMasked(ReqMI.Opcode) THEN 3 ELSE 2
        IN  /\ PrintedOperands =
                  << start, start - 1, 0 >> \o (IF IsMasked(ReqMI.Opcode) THEN << 1 >> ELSE <<>>)
            /\ (TextOf(" {") # {}) <=> IsMasked(ReqMI.Opcode)
            /\ IsMasked(ReqMI.Opcode) =>
                  /\ MaskOperands = { 1 }
                  /\ OS[Len(OS)].k = "}"
                  /\ OS[Len(OS) - 2].k = " {"
            /\ TextOf("}") # {} <=> IsMasked(ReqMI.Opcode)
            /\ (getNumOperands(ReqMI) - 1) \notin
                  ({ PrintedOperands[i] : i \in 1..Len(PrintedOperands) } \cup GroupIndices)
            /\ \A i, j \in 1..Len(calls) :
                  (i # j /\ calls[i].k = "printOperand" /\ calls[j].k = "printOperand")
                      => calls[i].v # calls[j].v

C8_Witness ==
    /\ call.fn = "printVecCompareInstr"
    /\ ret
    /\ ReqMI.Opcode = "VPCMPUQZrmibk"
    /\ PrintedOperands = << 3, 2, 0, 1 >>
    /\ MaskOperands = { 1 }

\* --- printU8Imm -------------------------------------------------------------
\* C9: printU8Imm prints a non-expression immediate V as V & 0xFF, a value in
\* 0..255; an expression operand is printed as printOperand prints it, with
\* no masking.
C9_U8Masked ==
    call.fn = "printU8Imm" =>
        /\ Len(OS) = 2
        /\ OS[1].k = "$"
        /\ CS = <<>>
        /\ isImm(ReqOp) =>
              /\ OS[2].k = (IF PrintImmHex THEN "hex" ELSE "dec")
              /\ OS[2].v \in Range64(0, 255)
              /\ OS[2].v[1] = ReqOp.val[1] % 256
        /\ isExpr(ReqOp) =>
              /\ OS[2].k = "expr"
              /\ OS[2].v = ReqOp.val

C9_Witness ==
    /\ call.fn = "printU8Imm"
    /\ ReqOp = Imm(I64(511))
    /\ OS[2].v = I64(255)

\* --- HasCustomInstComment ---------------------------------------------------
\* What the comment pre-pass reports for the instruction of the request.
CurrentInstHasCustomComment == ReqMI.Opcode \in CustomCommentOpcodes

\* C10 as stated: after every printInst call, with or without a comment sink,
\* HasCustomInstComment reflects the current instruction only.
C10_FlagResetEveryCall ==
    call.fn = "printInst" => (HasCustomInstComment = CurrentInstHasCustomComment)

\* C10 (amended): a printInst call with a comment sink attached sets
\* HasCustomInstComment from the current instruction alone; a call with no
\* sink leaves the flag as the earlier call left it, and writes no comment.
C10_FlagResetWithSink ==
    [][ (call.fn = "" /\ call'.fn = "printInst") =>
            IF CommentStream
            THEN HasCustomInstComment' = (call'.MI.Opcode \in CustomCommentOpcodes)
            ELSE HasCustomInstComment' = HasCustomInstComment /\ CS' = <<>> ]_vars

C10_Witness ==
    /\ call.fn = "printInst"
    /\ ~CommentStream
    /\ HasCustomInstComment
    /\ ~CurrentInstHasCustomComment
====
